---- MODULE Spec2Model ----
(***************************************************************************)
(* Model of the node-skeleton-cli generator script (the `nsc` executable). *)
(* The script is the third part of src/templates/routers/userRouter.js     *)
(* (lines 41-404); line numbers below refer to that file unless another    *)
(* file is named.                                                          *)
(*                                                                         *)
(* Strings are TLA+ strings; TLC evaluates Len, SubSeq, Head, Tail and \o  *)
(* on them, so the string functions of the script are modelled character   *)
(* by character.                                                           *)
(***************************************************************************)
EXTENDS Integers, Sequences, FiniteSets, TLC

VARIABLES
  \* ---- command line and environment of one invocation
  destinationPath,  \* program.args.shift() || '.'                 (l.374)
  forceArg,         \* what commander does with a --force on the command line
  force,            \* truthiness of program.force                 (l.381)
  versionFlag,      \* argv holds --version: commander calls process.exit(0)
  indexRouterFile,  \* file name of the index router template (src/unnamed/part_001)
  \* ---- the file system below the working directory
  dirs,             \* set of existing directory paths
  files,            \* function: existing file path -> content
  \* ---- the running process
  pc,               \* position of the script
  run,              \* number of the current invocation
  appName,          \* l.377
  pkg,              \* the manifest object of createApplication    (l.267)
  locals,           \* app.locals of the loaded template           (l.305-308)
  exited,           \* exit.exited                                 (l.75)
  exitCode,         \* the argument of the pending exit(code)
  draining,         \* l.65
  pendingFlush,     \* streams whose empty write has not called back yet
  exitCalls,        \* codes the original process.exit (_exit) was called with
  stdinDestroyed,   \* process.stdin.destroy() was called          (l.386)
  \* ---- history of one invocation
  listing,          \* what fs.readdir handed to the callback      (l.252)
  prompted,         \* confirm() has asked its question            (l.149)
  answered,         \* the question's callback has run             (l.149-152)
  okAnswer,         \* what confirm passed to its callback         (l.151)
  dirs0, files0,    \* the file system when the invocation started
  fsLog,            \* directory creations and file writes of this invocation
  doneFs,           \* file system at the end of each completed scaffold
  \* ---- the string functions called on their own
  fnArg, fnName, fnOut

vars == << destinationPath, forceArg, force, versionFlag, indexRouterFile, dirs, files,
           pc, run, appName, pkg, locals, exited, exitCode, draining,
           pendingFlush, exitCalls, stdinDestroyed, listing, prompted,
           answered, okAnswer, dirs0, files0, fsLog, doneFs,
           fnArg, fnName, fnOut >>

(***************************************************************************)
(* Bounds                                                                  *)
(***************************************************************************)
\* invocations of the program on the same destination
MaxRuns == 2
\* characters of a path handed to createAppName
MaxPathLen == 4
\* words typed at the confirmation prompt
MaxAnswerParts == 2

(***************************************************************************)
(* Characters and strings                                                  *)
(***************************************************************************)
\* the printable ASCII characters with codes 32..95 and 97..126 (code 96, the
\* backquote, cannot be written in a string of this language and occurs in no
\* string of the program)
PrintableLow == " !\"#$%&'()*+,-./0123456789:;<=>?@ABCDEFGHIJKLMNOPQRSTUVWXYZ[\\]^_"
PrintableHigh == "abcdefghijklmnopqrstuvwxyz{|}~"

Char(s, i) == SubSeq(s, i, i)

\* the code of each printable character
CharCodes ==
  [c \in { Char(PrintableLow, i) : i \in 1..Len(PrintableLow) }
          \cup { Char(PrintableHigh, i) : i \in 1..Len(PrintableHigh) } |->
     IF \E i \in 1..Len(PrintableLow) : Char(PrintableLow, i) = c
     THEN 31 + (CHOOSE i \in 1..Len(PrintableLow) : Char(PrintableLow, i) = c)
     ELSE 96 + (CHOOSE i \in 1..Len(PrintableHigh) : Char(PrintableHigh, i) = c)]

CharCode(c) == CharCodes[c]

FromCharCode(n) == IF n < 96 THEN Char(PrintableLow, n - 31) ELSE Char(PrintableHigh, n - 96)

IsUpper(c) == CharCode(c) >= 65 /\ CharCode(c) <= 90
IsLower(c) == CharCode(c) >= 97 /\ CharCode(c) <= 122
IsDigit(c) == CharCode(c) >= 48 /\ CharCode(c) <= 57

RECURSIVE toLowerCase(_)
toLowerCase(s) ==
  IF s = "" THEN ""
  ELSE (IF IsUpper(Head(s)) THEN FromCharCode(CharCode(Head(s)) + 32) ELSE Head(s))
       \o toLowerCase(Tail(s))

StartsWith(s, p) == Len(s) >= Len(p) /\ SubSeq(s, 1, Len(p)) = p
EndsWith(s, p) == Len(s) >= Len(p) /\ SubSeq(s, Len(s) - Len(p) + 1, Len(s)) = p

\* a < b in the order of String.prototype comparison (by character code)
RECURSIVE StrLess(_, _)
StrLess(a, b) ==
  IF b = "" THEN FALSE
  ELSE IF a = "" THEN TRUE
  ELSE IF Head(a) = Head(b) THEN StrLess(Tail(a), Tail(b))
  ELSE CharCode(Head(a)) < CharCode(Head(b))

(***************************************************************************)
(* confirm (l.143-153): the test of the typed input                        *)
(***************************************************************************)
\* /^y|yes|ok|true$/i is an alternation of four branches; ^ belongs to the
\* first branch only and $ to the last one only.
ConfirmBranches ==
  << [atStart |-> TRUE,  lit |-> "y",    atEnd |-> FALSE],
     [atStart |-> FALSE, lit |-> "yes",  atEnd |-> FALSE],
     [atStart |-> FALSE, lit |-> "ok",   atEnd |-> FALSE],
     [atStart |-> FALSE, lit |-> "true", atEnd |-> TRUE] >>

BranchMatches(b, s) ==
  \E i \in 1..(Len(s) - Len(b.lit) + 1) :
     /\ SubSeq(s, i, i + Len(b.lit) - 1) = b.lit
     /\ b.atStart => i = 1
     /\ b.atEnd => i + Len(b.lit) - 1 = Len(s)

\* RegExp.prototype.test with the i flag
ConfirmTest(input) ==
  \E k \in 1..Len(ConfirmBranches) : BranchMatches(ConfirmBranches[k], toLowerCase(input))

(***************************************************************************)
(* createAppName (l.236-242)                                               *)
(***************************************************************************)
RECURSIVE StripTrailing(_, _)
StripTrailing(s, cs) ==
  IF s # "" /\ Char(s, Len(s)) \in cs THEN StripTrailing(SubSeq(s, 1, Len(s) - 1), cs) ELSE s

RECURSIVE StripLeading(_, _)
StripLeading(s, cs) ==
  IF s # "" /\ Head(s) \in cs THEN StripLeading(Tail(s), cs) ELSE s

RECURSIVE AfterLastSlash(_)
AfterLastSlash(s) ==
  IF s = "" THEN ""
  ELSE IF Char(s, Len(s)) = "/" THEN ""
  ELSE AfterLastSlash(SubSeq(s, 1, Len(s) - 1)) \o Char(s, Len(s))

\* path.basename (POSIX): trailing separators are dropped, then the part
\* after the last separator is taken
basename(p) == AfterLastSlash(StripTrailing(p, {"/"}))

\* the class [A-Za-z0-9.-]
InNameClass(c) == IsUpper(c) \/ IsLower(c) \/ IsDigit(c) \/ c \in {".", "-"}

\* .replace(/[^A-Za-z0-9.-]+/g, '-'): every maximal run of characters outside
\* the class becomes one '-'
RECURSIVE ReplaceRuns(_, _)
ReplaceRuns(s, inRun) ==
  IF s = "" THEN ""
  ELSE IF InNameClass(Head(s)) THEN Head(s) \o ReplaceRuns(Tail(s), FALSE)
  ELSE (IF inRun THEN "" ELSE "-") \o ReplaceRuns(Tail(s), TRUE)

StripEndsFirstCharOnly(s) ==
  LET a == IF s # "" /\ Head(s) \in {"-", "_", "."} THEN Tail(s) ELSE s
  IN  IF a # "" /\ Char(a, Len(a)) = "-" THEN SubSeq(a, 1, Len(a) - 1) ELSE a

\* .replace(/^[-_.]+|-+$/g, ''): the leading run of - _ . and the trailing
\* run of - are removed
StripEnds(s) == StripTrailing(StripLeading(s, {"-", "_", "."}), {"-"})

createAppName(pathName) == toLowerCase(StripEnds(ReplaceRuns(basename(pathName), FALSE)))

(***************************************************************************)
(* Paths (path.join, l.98, 215, 226, 301, 328-349)                         *)
(***************************************************************************)
RECURSIVE SplitPath(_, _)
\* the segments of p between separators; cur is the segment being read
SplitPath(p, cur) ==
  IF p = "" THEN << cur >>
  ELSE IF Head(p) = "/" THEN << cur >> \o SplitPath(Tail(p), "")
  ELSE SplitPath(Tail(p), cur \o Head(p))

RECURSIVE JoinSegments(_)
JoinSegments(segs) ==
  IF segs = << >> THEN ""
  ELSE IF Len(segs) = 1 THEN segs[1]
  ELSE segs[1] \o "/" \o JoinSegments(Tail(segs))

\* path.normalize on a relative path without '..': empty and '.' segments
\* are dropped, and the empty path is '.'
NormalizePath(p) ==
  LET segs == SelectSeq(SplitPath(p, ""), LAMBDA x : x # "" /\ x # ".")
  IN  IF segs = << >> THEN "." ELSE JoinSegments(segs)

PathJoin(a, b) == NormalizePath(a \o "/" \o b)

\* path.resolve(p) for a relative p, below the working directory
PathResolve(cwd, p) == IF NormalizePath(p) = "." THEN cwd ELSE cwd \o "/" \o NormalizePath(p)

\* the directory holding p
ParentDir(p) ==
  LET segs == SplitPath(p, "")
  IN  IF Len(segs) <= 1 THEN "." ELSE JoinSegments(SubSeq(segs, 1, Len(segs) - 1))

\* p and the directories above it, the working directory left out
SelfAndAncestors(p) ==
  LET segs == SplitPath(p, "")
  IN  IF p = "." THEN {} ELSE { JoinSegments(SubSeq(segs, 1, k)) : k \in 1..Len(segs) }

(***************************************************************************)
(* The file system calls                                                   *)
(***************************************************************************)
\* mkdirp.sync(loc, MODE_0755) (l.101): creates loc and its missing ancestors;
\* an existing directory is left alone; a regular file in the way throws
MkdirpSync(ds, fl, loc) ==
  IF \E a \in SelfAndAncestors(loc) : a \in DOMAIN fl
  THEN [ok |-> FALSE, dirs |-> ds]
  ELSE [ok |-> TRUE, dirs |-> ds \cup SelfAndAncestors(loc)]

\* fs.writeFileSync(file, str, {mode}) (l.163): creates or truncates; throws
\* when file is a directory (EISDIR) or its directory is missing (ENOENT)
WriteFileSync(ds, fl, file, str) ==
  IF file \in ds \/ ParentDir(file) \notin ds
  THEN [ok |-> FALSE, files |-> fl]
  ELSE [ok |-> TRUE,
        files |-> [p \in DOMAIN fl \cup {file} |-> IF p = file THEN str ELSE fl[p]]]

\* fs.readdir(dir, cb) (l.252): what the callback receives
Readdir(ds, fl, dir) ==
  IF dir \in ds
  THEN [err |-> "", defined |-> TRUE,
        names |-> { basename(p) : p \in { q \in (ds \cup DOMAIN fl) : q # "." /\ ParentDir(q) = dir } }]
  ELSE IF \E a \in SelfAndAncestors(dir) : a \in DOMAIN fl
  THEN [err |-> "ENOTDIR", defined |-> FALSE, names |-> {}]
  ELSE [err |-> "ENOENT", defined |-> FALSE, names |-> {}]

IsEmptyListingAlways(l) == TRUE

\* !files || !files.length (l.254)
IsEmptyListing(l) == (~l.defined) \/ Cardinality(l.names) = 0

\* if (err && err.code !== 'ENOENT') throw err (l.253)
ListingThrows(l) == l.err # "" /\ l.err # "ENOENT"

(***************************************************************************)
(* The template directory (TEMPLATE_DIR, l.55)                             *)
(***************************************************************************)
\* names of the index router template the model tries: src/unnamed/part_001
\* is that template, its file name is not known
IndexRouterNames == {"index.js", "indexRouter.js"}

\* fs.readdirSync(path.join(TEMPLATE_DIR, 'routers')) (l.223): the user router
\* template is src/templates/routers/userRouter.js
RouterTemplates(indexFile) == {"userRouter.js", indexFile}

\* fs.readdirSync(path.join(TEMPLATE_DIR, 'config')): the config templates
\* are not part of the sources at hand; server.js requires './config'
ConfigTemplates == {"index.js"}

\* the text fs.readFileSync hands back for a template (l.215); static
\* templates are copied unchanged, so the text is named, not spelled out
TemplateText(from) == "<templates/" \o from \o ">"

\* minimatch.filter('*.js', {matchBase: true}) (l.224): the base name ends
\* in .js, has something before it and does not start with a dot
MatchesJsGlob(name) == Len(name) > 3 /\ EndsWith(name, ".js") /\ Head(name) # "."

RECURSIVE SortStrings(_)
\* the names of a set in ascending order
SortStrings(S) ==
  IF S = {} THEN << >>
  ELSE LET m == CHOOSE x \in S : \A y \in S \ {x} : StrLess(x, y)
       IN  << m >> \o SortStrings(S \ {m})

(***************************************************************************)
(* write, copyTemplate, copyTemplateMulti, mkdir (l.97-102, 162-165,       *)
(* 214-228). A file-system state is [dirs, files, log, ok]; ok turns FALSE *)
(* when a call throws, and nothing is done after that.                     *)
(***************************************************************************)
\* mkdir(base, dir) (l.97-102)
mkdir(st, base, dir) ==
  LET loc == PathJoin(base, dir)
      r == MkdirpSync(st.dirs, st.files, loc)
  IN  IF ~st.ok THEN st
      ELSE [st EXCEPT !.ok = r.ok, !.dirs = r.dirs,
                      !.log = IF r.ok THEN Append(@, [op |-> "mkdir", path |-> loc]) ELSE @]

\* write(file, str, mode) (l.162-165)
write(st, file, str) ==
  LET r == WriteFileSync(st.dirs, st.files, file, str)
  IN  IF ~st.ok THEN st
      ELSE [st EXCEPT !.ok = r.ok, !.files = r.files,
                      !.log = IF r.ok THEN Append(@, [op |-> "write", path |-> file]) ELSE @]

\* copyTemplate(from, to) (l.214-216)
copyTemplate(st, from, to) == write(st, to, TemplateText(from))

RECURSIVE CopyEach(_, _, _, _)
CopyEach(st, fromDir, toDir, names) ==
  IF names = << >> THEN st
  ELSE CopyEach(copyTemplate(st, PathJoin(fromDir, Head(names)), PathJoin(toDir, Head(names))),
                fromDir, toDir, Tail(names))

\* copyTemplateMulti(fromDir, toDir, nameGlob) with nameGlob = '*.js'
\* (l.222-228); entries is the listing of the template directory
copyTemplateMulti(st, fromDir, toDir, entries) ==
  CopyEach(st, fromDir, toDir, SortStrings({ n \in entries : MatchesJsGlob(n) }))

(***************************************************************************)
(* The manifest (l.267-293, 345, 349). An object is the sequence of its    *)
(* <<key, value>> properties in insertion order.                           *)
(***************************************************************************)
HasKey(obj, k) == \E i \in 1..Len(obj) : obj[i][1] = k

\* obj[k] = v: a new key goes last, an existing key keeps its place
SetProp(obj, k, v) ==
  IF HasKey(obj, k)
  THEN [i \in 1..Len(obj) |-> IF obj[i][1] = k THEN << k, v >> ELSE obj[i]]
  ELSE Append(obj, << k, v >>)

GetProp(obj, k) == obj[CHOOSE i \in 1..Len(obj) : obj[i][1] = k][2]

Keys(obj) == [i \in 1..Len(obj) |-> obj[i][1]]

\* the object literal of l.267-293
BaselinePkg(name) ==
  [ name |-> name,
    version |-> "0.0.0",
    private |-> TRUE,
    main |-> "server.js",
    scripts |-> << << "start", "NODE_ENV=production node server.js" >>,
                   << "dev", "nodemon server.js" >>,
                   << "lint", "eslint . --ext .js" >>,
                   << "lint:fix", "eslint --fix . --ext .js" >>,
                   << "test", "echo \"Error: no test specified\" && exit 1" >> >>,
    dependencies |-> << << "chalk", "^2.4.1" >>,
                        << "express", "^4.16.4" >> >>,
    devDependencies |-> << << "eslint", "^5.10.0" >>,
                           << "eslint-config-airbnb-base", "^13.1.0" >>,
                           << "eslint-config-prettier", "^3.3.0" >>,
                           << "eslint-plugin-import", "^2.14.0" >>,
                           << "eslint-plugin-node", "^8.0.0" >>,
                           << "eslint-plugin-prettier", "^3.0.0" >>,
                           << "nodemon", "^1.18.8" >>,
                           << "prettier", "^1.15.3" >> >> ]

\* the manifest before createApplication has built one
NoPkg ==
  [ name |-> "", version |-> "", private |-> FALSE, main |-> "",
    scripts |-> << >>, dependencies |-> << >>, devDependencies |-> << >> ]

KeyAfter(a, b) == StrLess(b, a)

\* the order Array.prototype.sort gives the keys in sorted-object
KeyBefore(a, b) == StrLess(a, b)

RECURSIVE SortProps(_)
SortProps(obj) ==
  IF obj = << >> THEN << >>
  ELSE LET i == CHOOSE i \in 1..Len(obj) :
                   \A j \in 1..Len(obj) : j # i => KeyBefore(obj[i][1], obj[j][1])
       IN  << obj[i] >> \o SortProps([j \in 1..(Len(obj) - 1) |-> IF j < i THEN obj[j] ELSE obj[j + 1]])

\* sortedObject(pkg.dependencies) (l.345): a new object, keys ascending
sortedObject(obj) == SortProps(obj)

RECURSIVE JsonQuoteChars(_)
JsonQuoteChars(s) ==
  IF s = "" THEN ""
  ELSE (IF Head(s) = "\"" THEN "\\\""
        ELSE IF Head(s) = "\\" THEN "\\\\"
        ELSE Head(s)) \o JsonQuoteChars(Tail(s))

\* JSON.stringify of a string
JsonString(s) == "\"" \o JsonQuoteChars(s) \o "\""

RECURSIVE JsonProps(_, _)
\* the properties of a string-valued object, one per line
JsonProps(obj, indent) ==
  IF obj = << >> THEN ""
  ELSE indent \o JsonString(obj[1][1]) \o ": " \o JsonString(obj[1][2])
       \o (IF Len(obj) > 1 THEN ",\n" ELSE "\n") \o JsonProps(Tail(obj), indent)

\* JSON.stringify of a string-valued object that sits at depth 1
JsonObject(obj) == IF obj = << >> THEN "{}" ELSE "{\n" \o JsonProps(obj, "    ") \o "  }"

\* `${JSON.stringify(pkg, null, 2)}\n` (l.349)
ManifestText(p) ==
  "{\n"
  \o "  \"name\": " \o JsonString(p.name) \o ",\n"
  \o "  \"version\": " \o JsonString(p.version) \o ",\n"
  \o "  \"private\": " \o (IF p.private THEN "true" ELSE "false") \o ",\n"
  \o "  \"main\": " \o JsonString(p.main) \o ",\n"
  \o "  \"scripts\": " \o JsonObject(p.scripts) \o ",\n"
  \o "  \"dependencies\": " \o JsonObject(p.dependencies) \o ",\n"
  \o "  \"devDependencies\": " \o JsonObject(p.devDependencies) \o "\n"
  \o "}" \o "\n"

(***************************************************************************)
(* The app template and its locals (l.194-208, 302-317, 336-342)           *)
(***************************************************************************)
\* app.locals before l.305-308 have run
NoLocals == [localModules |-> << >>, modules |-> << >>, mounts |-> << >>, uses |-> << >>]

RequestLoggerWithoutDependency(cx) ==
  [cx EXCEPT !.locals.modules = SetProp(@, "logger", "morgan"),
             !.locals.uses = Append(@, "logger('dev')")]

\* Request logger (l.310-313)
RequestLogger(cx) ==
  [cx EXCEPT !.locals.modules = SetProp(@, "logger", "morgan"),
             !.locals.uses = Append(@, "logger('dev')"),
             !.pkg.dependencies = SetProp(@, "morgan", "^1.9.1")]

\* Body parsers (l.315-317)
BodyParsers(cx) ==
  [cx EXCEPT !.locals.uses = @ \o << "express.json()", "express.urlencoded({ extended: true })" >>]

\* Index router mount and user router mount (l.336-342)
RouterMounts(cx) ==
  [cx EXCEPT !.locals.localModules =
                 SetProp(SetProp(@, "indexRouter", "./routers/index"), "userRouter", "./routers/user"),
             !.locals.mounts = @ \o << [path |-> "/", code |-> "indexRouter"],
                                       [path |-> "/user", code |-> "userRouter"] >>]

RECURSIVE RenderRequires(_)
RenderRequires(obj) ==
  IF obj = << >> THEN ""
  ELSE "const " \o obj[1][1] \o " = require('" \o obj[1][2] \o "');\n" \o RenderRequires(Tail(obj))

RECURSIVE RenderUses(_)
RenderUses(uses) ==
  IF uses = << >> THEN "" ELSE "app.use(" \o Head(uses) \o ");\n" \o RenderUses(Tail(uses))

RECURSIVE RenderMounts(_)
RenderMounts(mounts) ==
  IF mounts = << >> THEN ""
  ELSE "app.use('" \o Head(mounts).path \o "', " \o Head(mounts).code \o ");\n"
       \o RenderMounts(Tail(mounts))

\* app.render() (l.198-202): the template app.js.ejs is not part of the
\* sources at hand; the text has one require per module, one app.use per
\* entry of uses and one per mount, each in the order of the binding
Render(l) ==
  "const express = require('express');\n"
  \o RenderRequires(l.modules) \o RenderRequires(l.localModules)
  \o "const app = express();\n"
  \o RenderUses(l.uses) \o RenderMounts(l.mounts)
  \o "module.exports = app;\n"

(***************************************************************************)
(* exit (l.64-84)                                                          *)
(***************************************************************************)
\* const streams = [process.stdout, process.stderr] (l.66)
Streams == {"stdout", "stderr"}

\* draining after the forEach of l.77-81: one increment per stream
DrainingAfterWrites == Cardinality(Streams)

\* done() (l.71-73): whether it calls _exit, i.e. !(draining - 1)
DoneCallsExit(dr) == (dr - 1) = 0

(***************************************************************************)
(* Inputs                                                                  *)
(***************************************************************************)
\* process.cwd()
Cwd == "/home/dev/Site.1"

\* --force on the command line. The program declares no such option
\* (l.397-401: only --version), so commander never sets program.force. When
\* no argument is left after the options (nsc --force, nsc --force dir: the
\* word after an unknown option is taken as its value) commander calls
\* program.unknownOption ("rejected"); when a directory stands before it
\* (nsc dir --force) commander passes over it ("ignored").
ForceArgs == {"none", "rejected", "ignored"}

\* destinations given on the command line ('.' is the default, l.374)
Dests == {".", "My App", "out/__"}

\* what may lie in the destination before the first invocation
InitialEntries ==
  { [name |-> "notes.txt", isDir |-> FALSE],
    [name |-> "config", isDir |-> FALSE],
    [name |-> "routers", isDir |-> TRUE] }

ForeignText == "not written by the generator\n"

\* the destination is a directory holding the entries es
FsWithEntries(d, es) ==
  [dirs |-> {"."} \cup SelfAndAncestors(d) \cup { PathJoin(d, e.name) : e \in { x \in es : x.isDir } },
   files |-> [p \in { PathJoin(d, e.name) : e \in { x \in es : ~x.isDir } } |-> ForeignText]]

\* the destination does not exist, and neither do the directories above it
FsAbsent(d) == [dirs |-> {"."}, files |-> [p \in {} |-> ForeignText]]

\* the destination is a regular file
FsRegularFile(d) ==
  [dirs |-> {"."} \cup (SelfAndAncestors(d) \ {d}), files |-> [p \in {d} |-> ForeignText]]

InitialFs(d) ==
  { FsWithEntries(d, es) : es \in SUBSET InitialEntries }
  \cup (IF d = "." THEN {} ELSE { FsAbsent(d), FsRegularFile(d) })

RECURSIVE StringsUpTo(_, _)
\* the strings of at most n characters of the set cs
StringsUpTo(cs, n) ==
  IF n = 0 THEN {""}
  ELSE LET S == StringsUpTo(cs, n - 1) IN S \cup { s \o c : s \in S, c \in cs }

PathAlphabet == {"/", "a", "B", "-", "_", ".", " "}

PathInputs == StringsUpTo(PathAlphabet, MaxPathLen)

AnswerParts == {"y", "Y", "es", "ok", "OK", "true", "True", "n", "no", " "}

\* what the user may type at the prompt: up to MaxAnswerParts parts in a row
AnswerInputs == StringsUpTo(AnswerParts, MaxAnswerParts)

(***************************************************************************)
(* The program                                                             *)
(***************************************************************************)
argVars == << destinationPath, forceArg, force, versionFlag, indexRouterFile >>
exitVars == << exited, exitCode, draining, pendingFlush, exitCalls >>
promptVars == << prompted, answered, okAnswer, stdinDestroyed >>
fnVars == << fnArg, fnName, fnOut >>

NoListing == [err |-> "", defined |-> FALSE, names |-> {}]

ScaffoldOrderRoutersCopiedFirst ==
  << "mkdirDest", "copyServer", "loadApp", "mkdirConfig", "copyConfig", "copyRouters",
     "mkdirRouters", "copyGitignore", "copyEslintrc", "copyPrettierrc", "routerMounts",
     "sortDependencies", "writeApp", "writePkg", "report" >>

\* the statements of createApplication after the manifest literal, in the
\* order of the source (l.295-365)
ScaffoldOrder ==
  << "mkdirDest", "copyServer", "loadApp", "mkdirConfig", "copyConfig", "mkdirRouters",
     "copyRouters", "copyGitignore", "copyEslintrc", "copyPrettierrc", "routerMounts",
     "sortDependencies", "writeApp", "writePkg", "report" >>

NextPc(name) ==
  LET i == CHOOSE k \in 1..Len(ScaffoldOrder) : ScaffoldOrder[k] = name
  IN  IF i = Len(ScaffoldOrder) THEN "done" ELSE ScaffoldOrder[i + 1]

\* the file-system state the next call starts from
FsNow == [dirs |-> dirs, files |-> files, log |-> fsLog, ok |-> TRUE]

\* exit(code) (l.64-84) up to its return: the two empty writes are queued,
\* their callbacks run later, and the trailing done() of l.83 runs at once
ExitCalled(code) ==
  /\ exited' = TRUE
  /\ exitCode' = code
  /\ draining' = DrainingAfterWrites
  /\ IF DoneCallsExit(DrainingAfterWrites)
     THEN /\ exitCalls' = Append(exitCalls, code)
          /\ pendingFlush' = {}
     ELSE /\ exitCalls' = exitCalls
          /\ pendingFlush' = Streams

\* where the process stands when exit(code) has returned and the statements
\* after the call have run to their end
AfterExit == IF DoneCallsExit(DrainingAfterWrites) THEN "exited" ELSE "flushing"

\* exit(code) as the last statement of a callback
Exit(code) ==
  /\ ExitCalled(code)
  /\ pc' = AfterExit

\* createApplication(name, dir) is entered: the manifest literal (l.267-293)
EnterCreateApplication ==
  /\ pkg' = BaselinePkg(appName)
  /\ pc' = ScaffoldOrder[1]

\* program.parse(process.argv); if (!exit.exited) main() (l.397-404), and
\* main up to the readdir request (l.372-380).
\* With --version commander prints the version and calls process.exit(0),
\* which is exit (l.88); exit returns and the parse goes on.
\* An option the program does not declare, with no argument left after it,
\* makes commander call program.unknownOption, which is the wrapper of
\* l.180-188: it calls program.outputHelp() (l.186), the wrapper of l.175.
\* The wrappers are arrow functions (l.133-136), so old.apply(this, args)
\* runs commander's outputHelp with the module's this, which has no
\* helpInformation: a TypeError leaves program.parse uncaught and the
\* process ends before l.403 and before any queued callback runs.
ParseArgs ==
  /\ pc = "start"
  /\ IF versionFlag
     THEN /\ ExitCalled(0)
          /\ pc' = IF AfterExit = "flushing" /\ forceArg = "rejected"
                   THEN "crashed"
                   ELSE AfterExit
          /\ UNCHANGED appName
     ELSE IF forceArg = "rejected"
     THEN /\ pc' = "crashed"
          /\ UNCHANGED << appName, exitVars >>
     ELSE /\ appName' = (IF createAppName(PathResolve(Cwd, destinationPath)) = ""
                         THEN "node-skeleton"
                         ELSE createAppName(PathResolve(Cwd, destinationPath)))
          /\ pc' = "readdir"
          /\ UNCHANGED exitVars
  /\ UNCHANGED << argVars, dirs, files, run, pkg, locals, promptVars, listing,
                  dirs0, files0, fsLog, doneFs, fnVars >>

\* the callback of fs.readdir in emptyDirectory (l.252-255) and the callback
\* main gives to emptyDirectory (l.380-394), up to confirm's question
ReaddirCallback ==
  /\ pc = "readdir"
  /\ LET l == Readdir(dirs, files, destinationPath)
     IN  /\ listing' = l
         /\ IF ListingThrows(l)
            THEN /\ pc' = "crashed"
                 /\ UNCHANGED << pkg, prompted >>
            ELSE IF IsEmptyListing(l) \/ force
            THEN /\ EnterCreateApplication
                 /\ UNCHANGED prompted
            ELSE /\ prompted' = TRUE
                 /\ pc' = "prompt"
                 /\ UNCHANGED pkg
  /\ UNCHANGED << argVars, dirs, files, run, appName, locals, exitVars, answered,
                  okAnswer, stdinDestroyed, dirs0, files0, fsLog, doneFs, fnVars >>

\* the callback of rl.question in confirm (l.149-152) and the callback main
\* gives to confirm (l.384-392); input is the line the user typed
Answer(input) ==
  /\ pc = "prompt"
  /\ answered' = TRUE
  /\ LET ok == ConfirmTest(input)
     IN  /\ okAnswer' = ok
         /\ IF ok
            THEN /\ stdinDestroyed' = TRUE
                 /\ EnterCreateApplication
                 /\ UNCHANGED exitVars
            ELSE /\ Exit(1)
                 /\ UNCHANGED << stdinDestroyed, pkg >>
  /\ UNCHANGED << argVars, dirs, files, run, appName, locals, prompted, listing,
                  dirs0, files0, fsLog, doneFs, fnVars >>

\* the callback of stream.write('', done) (l.80) for one stream
FlushCallback(s) ==
  /\ pc = "flushing"
  /\ s \in pendingFlush
  /\ IF DoneCallsExit(draining)
     THEN /\ exitCalls' = Append(exitCalls, exitCode)
          /\ pendingFlush' = {}
          /\ pc' = "exited"
     ELSE /\ exitCalls' = exitCalls
          /\ pendingFlush' = pendingFlush \ {s}
          /\ pc' = IF pendingFlush \ {s} = {} THEN "ended" ELSE "flushing"
  /\ UNCHANGED << argVars, dirs, files, run, appName, pkg, locals, exited, exitCode,
                  draining, promptVars, listing, dirs0, files0, fsLog, doneFs, fnVars >>

\* one statement of createApplication that calls the file system: st is
\* the state the call leaves; a call that throws ends the process
FsStep(name, st) ==
  /\ pc = name
  /\ dirs' = st.dirs
  /\ files' = st.files
  /\ fsLog' = st.log
  /\ pc' = IF st.ok THEN NextPc(name) ELSE "crashed"
  /\ doneFs' = IF st.ok /\ NextPc(name) = "done"
               THEN Append(doneFs, [dirs |-> st.dirs, files |-> st.files])
               ELSE doneFs
  /\ UNCHANGED << argVars, run, appName, exitVars, promptVars, listing, dirs0, files0, fnVars >>

\* if (dir !== '.') mkdir(dir, '.') (l.296-298)
MkdirDest ==
  /\ FsStep("mkdirDest", IF destinationPath # "." THEN mkdir(FsNow, destinationPath, ".") ELSE FsNow)
  /\ UNCHANGED << pkg, locals >>

\* copyTemplate('server.js', path.join(dir, 'server.js')) (l.301)
CopyServer ==
  /\ FsStep("copyServer", copyTemplate(FsNow, "server.js", PathJoin(destinationPath, "server.js")))
  /\ UNCHANGED << pkg, locals >>

\* loadTemplate('app.js'), the empty locals, the request logger and the body
\* parsers (l.302-317)
LoadApp ==
  /\ LET cx == BodyParsers(RequestLogger([locals |-> NoLocals, pkg |-> pkg]))
     IN  /\ locals' = cx.locals
         /\ pkg' = cx.pkg
  /\ FsStep("loadApp", FsNow)

\* mkdir(dir, 'config') (l.320)
MkdirConfig ==
  /\ FsStep("mkdirConfig", mkdir(FsNow, destinationPath, "config"))
  /\ UNCHANGED << pkg, locals >>

\* copyTemplateMulti('config', `${dir}/config`, '*.js') (l.321)
CopyConfig ==
  /\ FsStep("copyConfig",
            copyTemplateMulti(FsNow, "config", destinationPath \o "/config", ConfigTemplates))
  /\ UNCHANGED << pkg, locals >>

\* mkdir(dir, 'routers') (l.324)
MkdirRouters ==
  /\ FsStep("mkdirRouters", mkdir(FsNow, destinationPath, "routers"))
  /\ UNCHANGED << pkg, locals >>

\* copyTemplateMulti('routers', `${dir}/routers`, '*.js') (l.325)
CopyRouters ==
  /\ FsStep("copyRouters",
            copyTemplateMulti(FsNow, "routers", destinationPath \o "/routers",
                              RouterTemplates(indexRouterFile)))
  /\ UNCHANGED << pkg, locals >>

\* copyTemplate('gitignore', path.join(dir, '.gitignore')) (l.328)
CopyGitignore ==
  /\ FsStep("copyGitignore", copyTemplate(FsNow, "gitignore", PathJoin(destinationPath, ".gitignore")))
  /\ UNCHANGED << pkg, locals >>

\* copyTemplate('eslintrc.js', path.join(dir, '.eslintrc.js')) (l.331)
CopyEslintrc ==
  /\ FsStep("copyEslintrc", copyTemplate(FsNow, "eslintrc.js", PathJoin(destinationPath, ".eslintrc.js")))
  /\ UNCHANGED << pkg, locals >>

\* copyTemplate('prettierrc.js', path.join(dir, '.prettierrc.js')) (l.334)
CopyPrettierrc ==
  /\ FsStep("copyPrettierrc",
            copyTemplate(FsNow, "prettierrc.js", PathJoin(destinationPath, ".prettierrc.js")))
  /\ UNCHANGED << pkg, locals >>

\* the two router mounts (l.336-342)
RegisterRouterMounts ==
  /\ locals' = RouterMounts([locals |-> locals, pkg |-> pkg]).locals
  /\ FsStep("routerMounts", FsNow)
  /\ UNCHANGED pkg

\* pkg.dependencies = sortedObject(pkg.dependencies) (l.345)
SortDependencies ==
  /\ pkg' = [pkg EXCEPT !.dependencies = sortedObject(@)]
  /\ FsStep("sortDependencies", FsNow)
  /\ UNCHANGED locals

\* write(path.join(dir, 'app.js'), app.render()) (l.348)
WriteApp ==
  /\ FsStep("writeApp", write(FsNow, PathJoin(destinationPath, "app.js"), Render(locals)))
  /\ UNCHANGED << pkg, locals >>

\* write(path.join(dir, 'package.json'), `${JSON.stringify(pkg, null, 2)}\n`) (l.349)
WritePkg ==
  /\ FsStep("writePkg", write(FsNow, PathJoin(destinationPath, "package.json"), ManifestText(pkg)))
  /\ UNCHANGED << pkg, locals >>

\* the closing instructions (l.351-365); createApplication returns
Report ==
  /\ FsStep("report", FsNow)
  /\ UNCHANGED << pkg, locals >>

\* the program is started again with the same command line, on the file
\* system the last invocation left
Rerun ==
  /\ pc \in {"done", "ended", "exited"}
  /\ run < MaxRuns
  /\ run' = run + 1
  /\ pc' = "start"
  /\ appName' = ""
  /\ pkg' = NoPkg
  /\ locals' = NoLocals
  /\ exited' = FALSE
  /\ exitCode' = 0
  /\ draining' = 0
  /\ pendingFlush' = {}
  /\ exitCalls' = << >>
  /\ stdinDestroyed' = FALSE
  /\ listing' = NoListing
  /\ prompted' = FALSE
  /\ answered' = FALSE
  /\ okAnswer' = FALSE
  /\ dirs0' = dirs
  /\ files0' = files
  /\ fsLog' = << >>
  /\ UNCHANGED << argVars, dirs, files, doneFs, fnVars >>

Init ==
  /\ forceArg \in ForceArgs
  /\ destinationPath \in (IF forceArg = "rejected" THEN {"."} ELSE Dests)
  /\ force = FALSE
  /\ versionFlag \in BOOLEAN
  /\ indexRouterFile \in IndexRouterNames
  /\ \E f \in InitialFs(destinationPath) :
        /\ dirs = f.dirs /\ files = f.files
        /\ dirs0 = f.dirs /\ files0 = f.files
  /\ pc = "start"
  /\ run = 1
  /\ appName = ""
  /\ pkg = NoPkg
  /\ locals = NoLocals
  /\ exited = FALSE
  /\ exitCode = 0
  /\ draining = 0
  /\ pendingFlush = {}
  /\ exitCalls = << >>
  /\ stdinDestroyed = FALSE
  /\ listing = NoListing
  /\ prompted = FALSE
  /\ answered = FALSE
  /\ okAnswer = FALSE
  /\ fsLog = << >>
  /\ doneFs = << >>
  /\ fnArg = "" /\ fnName = "" /\ fnOut = ""

Next ==
  \/ ParseArgs
  \/ ReaddirCallback
  \/ \E input \in AnswerInputs : Answer(input)
  \/ \E s \in Streams : FlushCallback(s)
  \/ MkdirDest
  \/ CopyServer
  \/ LoadApp
  \/ MkdirConfig
  \/ CopyConfig
  \/ MkdirRouters
  \/ CopyRouters
  \/ CopyGitignore
  \/ CopyEslintrc
  \/ CopyPrettierrc
  \/ RegisterRouterMounts
  \/ SortDependencies
  \/ WriteApp
  \/ WritePkg
  \/ Report
  \/ Rerun

Spec == Init /\ [][Next]_vars

(***************************************************************************)
(* The string functions called on their own                                *)
(***************************************************************************)
FnInputs == PathInputs \cup AnswerInputs

InitFn ==
  /\ fnArg \in FnInputs
  /\ fnName = ""
  /\ fnOut = ""
  /\ destinationPath = "."
  /\ forceArg = "none"
  /\ force = FALSE
  /\ versionFlag = FALSE
  /\ indexRouterFile = "index.js"
  /\ dirs = {"."} /\ files = [p \in {} |-> ForeignText]
  /\ dirs0 = {"."} /\ files0 = [p \in {} |-> ForeignText]
  /\ pc = "fn"
  /\ run = 1
  /\ appName = ""
  /\ pkg = NoPkg
  /\ locals = NoLocals
  /\ exited = FALSE
  /\ exitCode = 0
  /\ draining = 0
  /\ pendingFlush = {}
  /\ exitCalls = << >>
  /\ stdinDestroyed = FALSE
  /\ listing = NoListing
  /\ prompted = FALSE
  /\ answered = FALSE
  /\ okAnswer = FALSE
  /\ fsLog = << >>
  /\ doneFs = << >>

mainVars == << argVars, dirs, files, pc, run, appName, pkg, locals, exitVars, promptVars,
               listing, dirs0, files0, fsLog, doneFs >>

\* the test of confirm (l.151) on the typed line fnArg
CallConfirm ==
  /\ fnName = ""
  /\ fnName' = "confirm"
  /\ fnOut' = (IF ConfirmTest(fnArg) THEN "true" ELSE "false")
  /\ UNCHANGED << fnArg, mainVars >>

\* createAppName(fnArg) (l.236-242)
CallCreateAppName ==
  /\ fnName = ""
  /\ fnName' = "createAppName"
  /\ fnOut' = createAppName(fnArg)
  /\ UNCHANGED << fnArg, mainVars >>

NextFn == CallConfirm \/ CallCreateAppName

SpecFn == InitFn /\ [][NextFn]_vars

(***************************************************************************)
(* Properties                                                              *)
(***************************************************************************)
ScaffoldPcs == { ScaffoldOrder[k] : k \in 1..Len(ScaffoldOrder) }

\* the callback of fs.readdir has run in this invocation
ListingKnown == pc \notin {"start", "readdir", "fn"} /\ (listing.defined \/ listing.err # "")

FsUntouched == dirs = dirs0 /\ files = files0 /\ fsLog = << >>

\* C1: when the listing of the destination is empty or fails with ENOENT,
\* confirm is never asked and createApplication is entered at once; when the
\* listing has an entry and force is not set, confirm has been asked, and
\* until its answer has arrived no directory is created and no file written.
C1_PromptBeforeWriting ==
  /\ (ListingKnown /\ (listing.err = "ENOENT" \/ (listing.defined /\ listing.names = {})))
        => (~prompted /\ pkg # NoPkg /\ pc \in ScaffoldPcs \cup {"done", "crashed"})
  /\ (ListingKnown /\ listing.defined /\ listing.names # {} /\ ~force)
        => (prompted /\ (~answered => (pc = "prompt" /\ FsUntouched)))
  /\ pc \in {"start", "readdir"} => FsUntouched

C1_Witness ==
  pc = "prompt" /\ ~force /\ prompted /\ ~answered /\ Cardinality(listing.names) = 1

\* C2: once the user has declined, nothing is created or written under the
\* destination, and when the process has nothing left to run the original
\* process.exit has been called with status 1.
C2_DeclineExitsWithStatus1 ==
  (answered /\ ~okAnswer) =>
     /\ FsUntouched
     /\ pc \in {"ended", "exited"} => exitCalls = << 1 >>

\* C3: confirm passes true exactly when the typed line is, letter case
\* aside, one of y, yes, ok, true.
C3_ConfirmExactWords ==
  fnName = "confirm" =>
     ((fnOut = "true") <=> (toLowerCase(fnArg) \in {"y", "yes", "ok", "true"}))

\* the lines of a text that ends with a line feed
SplitLines(t) ==
  LET P == { i \in 1..Len(t) : Char(t, i) = "\n" }
      pos(k) == IF k = 0 THEN 0 ELSE CHOOSE i \in P : Cardinality({ j \in P : j < i }) = k - 1
  IN  [k \in 1..Cardinality(P) |-> SubSeq(t, pos(k - 1) + 1, pos(k) - 1)]

RECURSIVE UpToQuote(_)
UpToQuote(s) == IF s = "" \/ Head(s) = "\"" THEN "" ELSE Head(s) \o UpToQuote(Tail(s))

\* the key of a property line at depth 2:      "key": "value"
LineKey(line) == UpToQuote(SubSeq(line, 6, Len(line)))

RECURSIVE KeysFrom(_, _)
\* the keys of the property lines at depth 2 that start the lines ls
KeysFrom(ls, i) ==
  IF i > Len(ls) \/ ~StartsWith(ls[i], "    \"") THEN << >>
  ELSE << LineKey(ls[i]) >> \o KeysFrom(ls, i + 1)

\* the keys, in the order of the text, of the object that the manifest text
\* gives for the top-level property section
SectionKeys(text, section) ==
  LET ls == SplitLines(text)
      opening == "  \"" \o section \o "\": {"
  IN  IF \E i \in 1..Len(ls) : ls[i] = opening
      THEN KeysFrom(ls, (CHOOSE i \in 1..Len(ls) : ls[i] = opening) + 1)
      ELSE << >>

ManifestPath == PathJoin(destinationPath, "package.json")

\* C4: in the package.json text just written, the keys of dependencies are
\* chalk, express, morgan in strictly ascending order, and the keys of
\* scripts and devDependencies are in the order of the manifest literal.
C4_ManifestKeyOrder ==
  pc = "report" =>
     LET text == files[ManifestPath]
         deps == SectionKeys(text, "dependencies")
     IN  /\ { deps[i] : i \in 1..Len(deps) } = {"chalk", "express", "morgan"}
         /\ \A i \in 1..(Len(deps) - 1) : StrLess(deps[i], deps[i + 1])
         /\ SectionKeys(text, "scripts") = << "start", "dev", "lint", "lint:fix", "test" >>
         /\ SectionKeys(text, "devDependencies") =
               << "eslint", "eslint-config-airbnb-base", "eslint-config-prettier",
                  "eslint-plugin-import", "eslint-plugin-node", "eslint-plugin-prettier",
                  "nodemon", "prettier" >>

C4_Witness ==
  /\ pc = "report"
  /\ ManifestPath \in DOMAIN files
  /\ Len(SectionKeys(files[ManifestPath], "dependencies")) = 3
  /\ fsLog[Len(fsLog)] = [op |-> "write", path |-> ManifestPath]

\* C5: when --force is given, an invocation is not ended by an exception
\* before it has listed the destination and does not ask for confirmation;
\* one that follows a completed scaffold of the same destination does not
\* fail, and the directories and file contents it leaves are those the
\* earlier scaffold left.
C5_ForcedRerunIdempotent ==
  (forceArg # "none" /\ ~versionFlag) =>
     /\ ~prompted
     /\ pc = "crashed" => listing # NoListing
     /\ Len(doneFs) >= 1 => pc # "crashed"
     /\ \A i, j \in 1..Len(doneFs) : doneFs[i] = doneFs[j]

\* C6: createAppName applied to its own result gives that result again.
C6_CreateAppNameIdempotent ==
  fnName = "createAppName" => createAppName(fnOut) = fnOut

C6_Witness ==
  fnName = "createAppName" /\ fnArg = "/_B " /\ fnOut = "b"

RECURSIVE IdentifierPrefix(_)
IdentifierPrefix(s) ==
  IF s = "" \/ ~(IsUpper(Head(s)) \/ IsLower(Head(s)) \/ IsDigit(Head(s)) \/ Head(s) \in {"_", "$"})
  THEN ""
  ELSE Head(s) \o IdentifierPrefix(Tail(s))

\* the identifier a middleware expression of uses starts with
UseCallee(u) == IdentifierPrefix(u)

BaselineDependencies == { BaselinePkg("").dependencies[i][1] : i \in 1..Len(BaselinePkg("").dependencies) }

BodyParserUses == {"express.json()", "express.urlencoded({ extended: true })"}

DependencyKeys == { pkg.dependencies[i][1] : i \in 1..Len(pkg.dependencies) }

\* C7: when the manifest is serialized, every dependency beyond the baseline
\* is the package of a module that an entry of uses calls, and every entry
\* of uses other than the two body parsers calls a module whose package is
\* in dependencies.
C7_DependenciesPairedWithUses ==
  pc \in {"writePkg", "report"} =>
     /\ \A d \in DependencyKeys \ BaselineDependencies :
           \E k \in 1..Len(locals.uses) :
              /\ HasKey(locals.modules, UseCallee(locals.uses[k]))
              /\ GetProp(locals.modules, UseCallee(locals.uses[k])) = d
     /\ \A k \in 1..Len(locals.uses) :
           \/ locals.uses[k] \in BodyParserUses
           \/ /\ HasKey(locals.modules, UseCallee(locals.uses[k]))
              /\ GetProp(locals.modules, UseCallee(locals.uses[k])) \in DependencyKeys
     /\ \A k \in 1..Len(locals.uses) :
           locals.uses[k] \in BodyParserUses => UseCallee(locals.uses[k]) \in BaselineDependencies

C7_Witness ==
  /\ pc = "writePkg"
  /\ Len(locals.uses) = 3
  /\ DependencyKeys \ BaselineDependencies = {"morgan"}

WritesOf(p) == { k \in 1..Len(fsLog) : fsLog[k] = [op |-> "write", path |-> p] }

\* C8: in the operations of one createApplication, every file is written
\* after the directory holding it has been created (the working directory
\* is there from the start); once package.json is written nothing is
\* written after it; at the end app.js was written after every copy and
\* package.json was written exactly once.
C8_DirectoriesBeforeFiles ==
  /\ \A i \in 1..Len(fsLog) :
        fsLog[i].op = "write" =>
           \/ ParentDir(fsLog[i].path) = "."
           \/ \E j \in 1..(i - 1) :
                 /\ fsLog[j].op = "mkdir"
                 /\ ParentDir(fsLog[i].path) \in SelfAndAncestors(fsLog[j].path)
  /\ \A i \in WritesOf(ManifestPath) : i = Len(fsLog)
  /\ pc = "done" =>
        /\ Cardinality(WritesOf(ManifestPath)) = 1
        /\ Cardinality(WritesOf(PathJoin(destinationPath, "app.js"))) = 1
        /\ \A i \in WritesOf(PathJoin(destinationPath, "app.js")) : i = Len(fsLog) - 1

C8_Witness ==
  /\ pc = "done"
  /\ destinationPath # "."
  /\ fsLog[1] = [op |-> "mkdir", path |-> destinationPath]
  /\ Len(fsLog) = 12

\* every stream's empty write has called back
AllFlushed == pendingFlush = {} /\ pc \in {"ended", "exited"}

\* C9: after exit(code), the original process.exit is called at most once,
\* only with that code, and it has been called by the time the flush
\* callbacks of both streams have run.
C9_ExitOnceAfterFlush ==
  exited =>
     /\ Len(exitCalls) <= 1
     /\ \A k \in 1..Len(exitCalls) : exitCalls[k] = exitCode
     /\ AllFlushed => exitCalls = << exitCode >>

\* require(p) from the generated app.js finds a file: p itself, p with one
\* of the extensions .js .json .node, or an index of the directory p
RequireCandidates(p) ==
  { p, p \o ".js", p \o ".json", p \o ".node",
    p \o "/index.js", p \o "/index.json", p \o "/index.node" }

\* C10: after a scaffold, each path of localModules is found by require from
\* app.js at a file this invocation wrote into the destination.
C10_LocalModulesResolve ==
  pc = "done" =>
     \A k \in 1..Len(locals.localModules) :
        \E f \in RequireCandidates(PathJoin(destinationPath, locals.localModules[k][2])) :
           /\ f \in DOMAIN files
           /\ WritesOf(f) # {}

====
